---- MODULE Spec2Model ----
(***************************************************************************)
(* Model of the thread-per-connection HTTP server of src/src/lib.rs: the   *)
(* wire codec (Request::parse_request, Request::response), the resource    *)
(* resolver and dispatcher (Server::handle_connection, dir_navigation_page)*)
(* and the per-connection worker loop of Server::start.                    *)
(*                                                                         *)
(* A byte is a one-character string; the bytes that are not printable are  *)
(* named: "NUL" is 0x00, "xC3" a two-byte UTF-8 lead byte, "xA9" a UTF-8   *)
(* continuation byte and "xFF" a byte that never occurs in UTF-8.  Text is *)
(* a sequence of bytes.                                                    *)
(***************************************************************************)
EXTENDS Integers, Sequences, FiniteSets, TLC

VARIABLES config, pc, req, parsed, fsops, calls, ops, result, log,
          listener, workers, client

vars == <<config, pc, req, parsed, fsops, calls, ops, result, log,
          listener, workers, client>>

-----------------------------------------------------------------------------
(* Bounds of the model.                                                    *)

\* files of 500*k-1, 500*k and 500*k+1 bytes exist for every k in 0..MaxChunks
MaxChunks == 2

\* directories with up to MaxChildren children are enumerated
MaxChildren == 2

-----------------------------------------------------------------------------
(* Program constants.                                                      *)

BUFFER_SIZE == 1024

BYTES_PER_CHUNK == 500

OK == 200

BAD_REQUEST == 400

NOT_FOUND == 404

NOT_IMPLEMENTED == 501

-----------------------------------------------------------------------------
(* Bytes and text.                                                         *)

NUL == "NUL"

SP == " "

LF == "\n"

CR == "\r"

TAB == "\t"

COLON == ":"

SLASH == "/"

CRLF == <<CR, LF>>

HexDigits == <<"0", "1", "2", "3", "4", "5", "6", "7",
               "8", "9", "a", "b", "c", "d", "e", "f">>

Utf8Lead == {"xC3"}

Utf8Cont == {"xA9"}

Utf8Never == {"xFF"}

Min(S) == CHOOSE x \in S : \A y \in S : x <= y

RECURSIVE Concat(_)
Concat(ss) == IF ss = <<>> THEN <<>> ELSE Head(ss) \o Concat(Tail(ss))

\* the decimal digits of n, as format!("{}", n) prints an unsigned integer
RECURSIVE Dec(_)
Dec(n) == IF n < 10 THEN <<HexDigits[n + 1]>>
          ELSE Dec(n \div 10) \o <<HexDigits[(n % 10) + 1]>>

\* format!("{:x}", n): lowercase hexadecimal, no prefix, no padding
RECURSIVE LowerHex(_)
LowerHex(n) == IF n < 16 THEN <<HexDigits[n + 1]>>
               ELSE LowerHex(n \div 16) \o <<HexDigits[(n % 16) + 1]>>

-----------------------------------------------------------------------------
(* Request::parse_request and the std functions it calls.                  *)

\* let mut buffer = [0; 1024]; read(&mut buffer) fills the first bytes
Pad(data) == [i \in 1..BUFFER_SIZE |-> IF i <= Len(data) THEN data[i] ELSE NUL]

\* String::from_utf8 succeeds: no byte outside UTF-8, every lead byte is
\* followed by a continuation byte, every continuation byte follows a lead
from_utf8_ok(b) ==
    \A i \in 1..Len(b) :
        /\ b[i] \notin Utf8Never
        /\ b[i] \in Utf8Lead => (i < Len(b) /\ b[i + 1] \in Utf8Cont)
        /\ b[i] \in Utf8Cont => (i > 1 /\ b[i - 1] \in Utf8Lead)

\* str::lines: split after every "\n"; each line loses its "\n" and then
\* one "\r" before it; a text ending in "\n" has no empty last line
StripEol(l) ==
    LET a == IF Len(l) > 0 /\ l[Len(l)] = LF THEN SubSeq(l, 1, Len(l) - 1) ELSE l
    IN  IF Len(a) < Len(l) /\ Len(a) > 0 /\ a[Len(a)] = CR
        THEN SubSeq(a, 1, Len(a) - 1) ELSE a

RECURSIVE lines(_)
lines(s) ==
    IF s = <<>> THEN <<>>
    ELSE LET nl == {i \in 1..Len(s) : s[i] = LF}
             e  == IF nl = {} THEN Len(s) ELSE Min(nl)
         IN  <<StripEol(SubSeq(s, 1, e))>> \o lines(SubSeq(s, e + 1, Len(s)))

\* a split that drops empty tokens, as str::split_whitespace would
RECURSIVE split_NoEmptyTokens(_, _)
split_NoEmptyTokens(s, sep) ==
    LET at == {i \in 1..Len(s) : s[i] = sep}
        rest == IF at = {} THEN <<>> ELSE split_NoEmptyTokens(SubSeq(s, Min(at) + 1, Len(s)), sep)
        first == IF at = {} THEN s ELSE SubSeq(s, 1, Min(at) - 1)
    IN  IF first = <<>> THEN rest ELSE <<first>> \o rest

\* str::split(sep) for a one-byte separator: one token more than separators
RECURSIVE split(_, _)
split(s, sep) ==
    LET at == {i \in 1..Len(s) : s[i] = sep}
    IN  IF at = {} THEN <<s>>
        ELSE <<SubSeq(s, 1, Min(at) - 1)>> \o split(SubSeq(s, Min(at) + 1, Len(s)), sep)

\* str::splitn(2, sep): split at the first separator only
splitn2(s, sep) ==
    LET at == {i \in 1..Len(s) : s[i] = sep}
    IN  IF at = {} THEN <<s>>
        ELSE <<SubSeq(s, 1, Min(at) - 1), SubSeq(s, Min(at) + 1, Len(s))>>

WhiteSpace == {SP, TAB, CR, LF}

\* str::trim: drop leading and trailing whitespace
trim(s) ==
    LET keep == {i \in 1..Len(s) : s[i] \notin WhiteSpace}
    IN  IF keep = {} THEN <<>>
        ELSE SubSeq(s, Min(keep), CHOOSE j \in keep : \A k \in keep : k <= j)

EmptyMap == [k \in {} |-> <<>>]

\* HashMap::insert: the last value stored under a key wins
insert(m, k, v) == [x \in DOMAIN m \cup {k} |-> IF x = k THEN v ELSE m[x]]

\* the header loop of parse_request over the lines after the first
RECURSIVE parse_headers(_, _)
parse_headers(h, ls) ==
    IF ls = <<>> THEN h
    ELSE LET parts == splitn2(Head(ls), COLON)
         IN  IF Len(parts) # 2 THEN parse_headers(h, Tail(ls))
             ELSE parse_headers(insert(h, parts[1], trim(parts[2])), Tail(ls))

\* the Request built at the top of every loop iteration
NewRequest == [path |-> <<>>, method |-> <<>>, headers |-> EmptyMap, response_code |-> 0]

\* rdo is the outcome of the read call: [ok |-> FALSE] or [ok |-> TRUE, data]
parse_request(r, rdo) ==
    IF ~rdo.ok THEN [res |-> "Err", req |-> r]
    ELSE LET bytes == Pad(rdo.data)
         IN  IF ~from_utf8_ok(bytes) THEN [res |-> "Err", req |-> r]
             ELSE IF bytes = <<>> THEN [res |-> "Ok", req |-> r]
             ELSE LET ls == lines(bytes)
                  IN  IF ls = <<>> THEN [res |-> "Ok", req |-> r]
                      ELSE LET words == split(Head(ls), SP)
                           IN  IF Len(words) # 3 THEN [res |-> "Ok", req |-> r]
                               ELSE [res |-> "Ok",
                                     req |-> [r EXCEPT
                                         !.method = r.method \o words[1],
                                         !.path = r.path \o words[2],
                                         !.headers = parse_headers(r.headers, Tail(ls))]]

-----------------------------------------------------------------------------
(* Request::response.                                                      *)

HTTP_VERSION == <<"H", "T", "T", "P", SLASH, "1", ".", "1">>

NotFoundBody == <<"N", "o", "t", SP, "F", "o", "u", "n", "d">>

NotImplementedBody ==
    <<"N", "o", "t", SP, "I", "m", "p", "l", "e", "m", "e", "n", "t", "e", "d">>

\* StatusCode::canonical_reason for the codes the server uses
canonical_reason(code) ==
    CASE code = OK -> <<"O", "K">>
      [] code = BAD_REQUEST -> <<"B", "a", "d", SP, "R", "e", "q", "u", "e", "s", "t">>
      [] code = NOT_FOUND -> <<"N", "o", "t", SP, "F", "o", "u", "n", "d">>
      [] code = NOT_IMPLEMENTED ->
           <<"N", "o", "t", SP, "I", "m", "p", "l", "e", "m", "e", "n", "t", "e", "d">>
      [] OTHER -> <<"<", "u", "n", "k", "n", "o", "w", "n", SP, "s", "t", "a", "t",
                    "u", "s", SP, "c", "o", "d", "e", ">">>

\* StatusCode::from_u16 accepts 100..=999
from_u16_ok(code) == code >= 100 /\ code < 1000

\* Display of StatusCode: the number, a space, the reason phrase
StatusText(code) == Dec(code) \o <<SP>> \o canonical_reason(code)

ConnectionHeader ==
    [name |-> <<"C", "o", "n", "n", "e", "c", "t", "i", "o", "n">>,
     value |-> <<"k", "e", "e", "p", "-", "a", "l", "i", "v", "e">>]

TransferEncodingHeader ==
    [name |-> <<"T", "r", "a", "n", "s", "f", "e", "r", "-", "E", "n", "c", "o", "d",
                "i", "n", "g">>,
     value |-> <<"c", "h", "u", "n", "k", "e", "d">>]

\* the orders in which HashMap::iter may yield the two response headers
HeaderOrders == {<<ConnectionHeader, TransferEncodingHeader>>,
                 <<TransferEncodingHeader, ConnectionHeader>>}

\* headers.iter().fold(String::new(), |s, kv| format!("{}\n{}: {}", s, k, v))
RECURSIVE fold_headers(_)
fold_headers(hs) ==
    IF hs = <<>> THEN <<>>
    ELSE fold_headers(SubSeq(hs, 1, Len(hs) - 1))
         \o <<LF>> \o hs[Len(hs)].name \o <<COLON, SP>> \o hs[Len(hs)].value

\* format!("HTTP/1.1 {}{}\n\n", StatusCode::from_u16(code)?, headers)
ResponseHead(code, order) ==
    HTTP_VERSION \o <<SP>> \o StatusText(code) \o fold_headers(order) \o <<LF, LF>>

\* let mut chunks = data.len() / BYTES_PER_CHUNK; if rem > 0 { chunks += 1 }
ChunkCount(len) ==
    (len \div BYTES_PER_CHUNK) + (IF len % BYTES_PER_CHUNK > 0 THEN 1 ELSE 0)

\* in_chunk_bytes of chunk chunk_num (0-based) of a payload of len bytes
in_chunk_bytes(chunk_num, len) ==
    IF chunk_num = ChunkCount(len) - 1 THEN len % BYTES_PER_CHUNK ELSE BYTES_PER_CHUNK

\* the four writes of one iteration of the chunk loop
ChunkWrites(chunk_num, data) ==
    LET n == in_chunk_bytes(chunk_num, Len(data))
        offset == chunk_num * BYTES_PER_CHUNK
    IN  <<LowerHex(n), CRLF, SubSeq(data, offset + 1, offset + n), CRLF>>

TerminalMarker == <<"0", CR, LF, CR, LF>>

\* the buffers response() hands to write, in order, when no write fails
WriteList(code, data, order) ==
    <<ResponseHead(code, order)>>
    \o Concat([c \in 1..ChunkCount(Len(data)) |-> ChunkWrites(c - 1, data)])
    \o <<TerminalMarker>>

\* what the stream does to the calls of one response: nothing, an error at
\* call `at` (the call after the last write is the flush), or a write that
\* accepts only n bytes of its buffer
NoFault == [kind |-> "none", at |-> 0, n |-> 0]

ShortCounts(len) == {n \in {0, len - 1} : n >= 0 /\ n < len}

Faults(ws) ==
    {NoFault}
    \cup {[kind |-> "fail", at |-> k, n |-> 0] : k \in 1..(Len(ws) + 1)}
    \cup UNION {{[kind |-> "short", at |-> k, n |-> a] : a \in ShortCounts(Len(ws[k]))}
                : k \in 1..Len(ws)}

WriteOp(buf, accepted) == [op |-> "write", data |-> buf, n |-> accepted]

FlushOp(res) == [op |-> "flush", data |-> <<>>, n |-> res]

\* the stream calls of a response() that drops the result of every write
StreamOps_IgnoreError(ws, fault) ==
    [k \in 1..Len(ws) |->
       IF fault.kind = "fail" /\ fault.at = k THEN WriteOp(ws[k], -1)
       ELSE IF fault.kind = "short" /\ fault.at = k THEN WriteOp(ws[k], fault.n)
       ELSE WriteOp(ws[k], Len(ws[k]))]
    \o <<FlushOp(IF fault.kind = "fail" /\ fault.at > Len(ws) THEN -1 ELSE 0)>>

\* the stream calls response() makes under a fault: every write up to the
\* failing one (the `?` returns there), then the flush
StreamOps(ws, fault) ==
    LET last == IF fault.kind = "fail" /\ fault.at <= Len(ws) THEN fault.at ELSE Len(ws)
        writes == [k \in 1..last |->
                     IF fault.kind = "fail" /\ fault.at = k THEN WriteOp(ws[k], -1)
                     ELSE IF fault.kind = "short" /\ fault.at = k THEN WriteOp(ws[k], fault.n)
                     ELSE WriteOp(ws[k], Len(ws[k]))]
    IN  IF fault.kind = "fail" /\ fault.at <= Len(ws) THEN writes
        ELSE writes \o <<FlushOp(IF fault.kind = "fail" THEN -1 ELSE 0)>>

Failed(o) == o.n < 0

\* response(code, data): env gives the header order and the stream's fault
response(r, code, data, env) ==
    IF ~from_u16_ok(code) THEN [res |-> "Err", req |-> r, ops |-> <<>>]
    ELSE LET sops == StreamOps(WriteList(code, data, env.order), env.fault)
         IN  IF \E i \in 1..Len(sops) : Failed(sops[i])
             THEN [res |-> "Err", req |-> r, ops |-> sops]
             ELSE [res |-> "Ok", req |-> [r EXCEPT !.response_code = code], ops |-> sops]

\* the environments a response of (code, data) can meet
ResponseEnvs(code, data) ==
    UNION {{[order |-> o, fault |-> f] : f \in Faults(WriteList(code, data, o))}
           : o \in HeaderOrders}

-----------------------------------------------------------------------------
(* The filesystem the server reads (never written).  A node is a           *)
(* directory, a regular file or something else (a socket, a device); `ok`  *)
(* says whether read_dir or read succeeds on it.                           *)

AFileName == <<"a", ".", "t", "x", "t">>

HiContent == <<"h", "i">>

RootR == <<SLASH, "r">>

RootQ == <<SLASH, "q">>

DirD == <<SLASH, "d">>

DirX == <<SLASH, "x">>

DirN == <<SLASH, "n">>

UnreadableFile == <<SLASH, "u">>

SpecialFile == <<SLASH, "s">>

MissingPath == <<SLASH, "m">>

\* std::path::Path::join of a directory path and an entry name
Join(dir, name) ==
    IF dir # <<>> /\ dir[Len(dir)] = SLASH THEN dir \o name ELSE dir \o <<SLASH>> \o name

FileLens ==
    {n \in {BYTES_PER_CHUNK * k + d : k \in 0..MaxChunks, d \in {-1, 0, 1}} : n >= 0}

FilePath(n) == <<SLASH, "f">> \o Dec(n)

\* n bytes that differ from chunk to chunk and hold line terminators
FileContent(n) ==
    [i \in 1..n |-> IF i % 7 = 0 THEN CR ELSE IF i % 7 = 1 /\ i > 1 THEN LF
                    ELSE HexDigits[(i % 16) + 1]]

ChildName(i) == <<"c">> \o Dec(i)

Dir(p, names, ok) == [path |-> p, kind |-> "dir", ok |-> ok, names |-> names, content |-> <<>>]

File(p, content, ok) == [path |-> p, kind |-> "file", ok |-> ok, names |-> {}, content |-> content]

Nodes ==
    {Dir(RootR, {AFileName}, TRUE), File(Join(RootR, AFileName), HiContent, TRUE),
     Dir(RootQ, {}, TRUE),
     Dir(DirD, {ChildName(i) : i \in 1..MaxChildren}, TRUE),
     Dir(DirD \o <<SLASH>>, {ChildName(i) : i \in 1..MaxChildren}, TRUE),
     Dir(DirX, {}, FALSE),
     Dir(DirN, {<<"xFF">>}, TRUE),
     File(UnreadableFile, <<>>, FALSE),
     [path |-> SpecialFile, kind |-> "other", ok |-> FALSE, names |-> {}, content |-> <<>>]}
    \cup {File(FilePath(n), FileContent(n), TRUE) : n \in FileLens}

Exists(p) == \E n \in Nodes : n.path = p

Node(p) == CHOOSE n \in Nodes : n.path = p

\* fs::metadata(path): Err for a path that does not resolve
fs_metadata(p) == IF Exists(p) THEN [ok |-> TRUE, kind |-> Node(p).kind]
                  ELSE [ok |-> FALSE, kind |-> "none"]

\* fs::read_dir(path): Err for a directory that cannot be opened
fs_read_dir(p) == IF Exists(p) /\ Node(p).kind = "dir" /\ Node(p).ok
                  THEN [ok |-> TRUE, names |-> Node(p).names]
                  ELSE [ok |-> FALSE, names |-> {}]

\* fs::read(path): Err for a file that cannot be read
fs_read(p) == IF Exists(p) /\ Node(p).kind = "file" /\ Node(p).ok
              THEN [ok |-> TRUE, content |-> Node(p).content]
              ELSE [ok |-> FALSE, content |-> <<>>]

\* the orders in which a ReadDir may yield the names: filesystem order
Orders(names) ==
    {o \in [1..Cardinality(names) -> names] : \A i, j \in DOMAIN o : o[i] = o[j] => i = j}

-----------------------------------------------------------------------------
(* dir_navigation_page.                                                    *)

\* format!("<a href=\"{}\">{}</a><br>", file.path(), file.file_name())
EntryLink(dir_name, name) ==
    <<"<", "a", SP, "h", "r", "e", "f", "=", "\"">> \o Join(dir_name, name)
    \o <<"\"", ">">> \o name \o <<"<", SLASH, "a", ">", "<", "b", "r", ">">>

PageOpen == <<"<", "h", "t", "m", "l", ">", "<", "b", "o", "d", "y", ">", "<", "h", "1", ">">>

PageMid == <<"<", SLASH, "h", "1", ">", "<", "b", "r", ">">>

PageClose == <<"<", SLASH, "b", "o", "d", "y", ">", "<", SLASH, "h", "t", "m", "l", ">">>

\* entries: the names in the order the ReadDir yields them
dir_navigation_page(dir_name, entries) ==
    PageOpen \o dir_name \o PageMid
    \o Concat([i \in 1..Len(entries) |-> EntryLink(dir_name, entries[i])])
    \o PageClose

-----------------------------------------------------------------------------
(* Server::handle_connection after its parse_request call.                 *)

GET == <<"G", "E", "T">>

Respond(code, data, fso) == [act |-> "respond", code |-> code, data |-> data, fsops |-> fso]

NoResponse(fso) == [act |-> "none", code |-> 0, data |-> <<>>, fsops |-> fso]

Panic(fso) == [act |-> "panic", code |-> 0, data |-> <<>>, fsops |-> fso]

\* a method comparison that ignores case
IsGet_AnyCase(method) == method \in {GET, <<"g", "e", "t">>}

\* req.method == "GET": a case-sensitive comparison of the whole method
IsGet(method) == method = GET

\* a resolver that looks the request path up under the configured root
FsPath_UnderRoot(self, path) == self.config.root \o path

\* the path handed to fs::metadata, fs::read_dir and fs::read: &req.path as
\* it was decoded; handle_connection never reads self.config
FsPath(self, path) == path

\* the directory arm: read_dir(..).unwrap(), and in dir_navigation_page
\* the unwrap of every entry and of its name as UTF-8
route_dir(self, r, entries) ==
    IF ~fs_read_dir(FsPath(self, r.path)).ok
        \/ \E i \in 1..Len(entries) : ~from_utf8_ok(entries[i])
    THEN Panic(<<"metadata", "read_dir">>)
    ELSE Respond(OK, dir_navigation_page(r.path, entries), <<"metadata", "read_dir">>)

\* a file arm that answers a failed read with an empty 200
route_file_EmptyOnError(self, r) ==
    IF fs_read(FsPath(self, r.path)).ok
    THEN Respond(OK, fs_read(FsPath(self, r.path)).content, <<"metadata", "read">>)
    ELSE Respond(OK, <<>>, <<"metadata", "read">>)

\* the regular-file arm: the content, or 404 when the read fails
route_file(self, r) ==
    IF fs_read(FsPath(self, r.path)).ok
    THEN Respond(OK, fs_read(FsPath(self, r.path)).content, <<"metadata", "read">>)
    ELSE Respond(NOT_FOUND, NotFoundBody, <<"metadata", "read">>)

\* the decision of handle_connection for request r whose decode ended pres:
\* one response call, no response, or a panic of one of the unwrap calls;
\* fsops are the filesystem calls made on the way
route(self, r, pres, entries) ==
    IF pres = "Err" THEN Respond(BAD_REQUEST, <<>>, <<>>)
    ELSE IF r.method = <<>> THEN NoResponse(<<>>)
    ELSE IF ~IsGet(r.method) THEN Respond(NOT_IMPLEMENTED, NotImplementedBody, <<>>)
    ELSE LET md == fs_metadata(FsPath(self, r.path))
         IN  IF ~md.ok THEN Respond(NOT_FOUND, NotFoundBody, <<"metadata">>)
             ELSE IF md.kind = "dir" THEN route_dir(self, r, entries)
             ELSE IF md.kind = "file" THEN route_file(self, r)
             ELSE NoResponse(<<"metadata">>)

\* self: the Server; env: the order the directory is enumerated in, and
\* what the stream does
handle_connection(self, r, pres, env) ==
    LET t == route(self, r, pres, env.entries)
    IN  CASE t.act = "panic" ->
               [res |-> "panic", req |-> r, calls |-> <<>>, fsops |-> t.fsops, ops |-> <<>>]
          [] t.act = "none" ->
               [res |-> "Ok", req |-> r, calls |-> <<>>, fsops |-> t.fsops, ops |-> <<>>]
          [] OTHER ->
               LET x == response(r, t.code, t.data, env.resp)
               IN  [res |-> x.res, req |-> x.req,
                    calls |-> <<[code |-> t.code, data |-> t.data]>>,
                    fsops |-> t.fsops, ops |-> x.ops]

EntryOrders(self, r, pres) ==
    IF pres = "Ok" /\ IsGet(r.method) /\ fs_read_dir(FsPath(self, r.path)).ok
    THEN Orders(fs_read_dir(FsPath(self, r.path)).names) ELSE {<<>>}

NoResponseEnv == [order |-> <<>>, fault |-> NoFault]

DispatchEnvs(self, r, pres) ==
    UNION {LET t == route(self, r, pres, e)
           IN  IF t.act = "respond"
               THEN {[entries |-> e, resp |-> x] : x \in ResponseEnvs(t.code, t.data)}
               ELSE {[entries |-> e, resp |-> NoResponseEnv]}
           : e \in EntryOrders(self, r, pres)}

-----------------------------------------------------------------------------
(* What a read call can return.                                            *)

POST == <<"P", "O", "S", "T">>

LowerGet == <<"g", "e", "t">>

EAcutePath == <<SLASH, "xC3", "xA9">>

PercentPath == <<SLASH, "%", "2", "0">>

HostLine == <<"H", "o", "s", "t", COLON, SP, "h">>

PaddedLine == <<"X", "-", "A", COLON, SP, SP, "v", SP, TAB>>

PlainLine == <<"n", "o", "c", "o", "l", "o", "n">>

TwoColonLine == <<"H", "o", "s", "t", COLON, "a", COLON, "b">>

Methods == {GET, POST, LowerGet, <<>>}

Paths == {n.path : n \in Nodes} \cup {MissingPath, <<SLASH>> \o AFileName, EAcutePath, PercentPath}

RequestLine(m, p) == m \o <<SP>> \o p \o <<SP>> \o HTTP_VERSION

HeaderBlock ==
    CRLF \o HostLine \o CRLF \o PaddedLine \o CRLF \o PlainLine \o CRLF
    \o TwoColonLine \o CRLF \o CRLF

Tails == {<<>>, <<LF>>, <<LF, LF>>, HeaderBlock, CRLF \o HostLine}

\* a request that fills the whole buffer: the last header value has no end
FullBuffer ==
    LET head == RequestLine(GET, DirD) \o CRLF \o <<"a", COLON>>
    IN  [i \in 1..BUFFER_SIZE |-> IF i <= Len(head) THEN head[i] ELSE "v"]

WellFormed ==
    {RequestLine(m, p) \o CRLF \o CRLF : m \in Methods, p \in Paths}
    \cup {RequestLine(m, p) \o t : m \in {GET, POST}, p \in {DirD, FilePath(1)}, t \in Tails}
    \cup {FullBuffer}

Malformed ==
    {<<>>,
     GET \o <<SP>> \o DirD,
     GET \o <<SP>> \o DirD \o CRLF \o HTTP_VERSION \o CRLF,
     GET \o <<SP, SP>> \o DirD \o <<SP>> \o HTTP_VERSION \o CRLF,
     RequestLine(GET, DirD) \o <<SP>> \o CRLF,
     CRLF \o RequestLine(GET, DirD) \o CRLF,
     <<LF>>,
     GET}

NotUtf8 ==
    {<<"xFF">>,
     RequestLine(GET, DirD) \o CRLF \o <<"xFF">> \o CRLF,
     RequestLine(POST, <<SLASH, "xC3">>) \o CRLF,
     <<"xA9">> \o RequestLine(GET, DirD),
     GET \o <<SP, "xFF">>}

Buffers == WellFormed \cup Malformed \cup NotUtf8

\* the outcomes of read(&mut buffer): an error, or the bytes received
\* (none when the client has closed the connection)
ReadOutcomes == {[ok |-> FALSE, data |-> <<>>]} \cup {[ok |-> TRUE, data |-> d] : d \in Buffers}

ReadOp(rdo) == [op |-> "read", data |-> rdo.data, n |-> IF rdo.ok THEN Len(rdo.data) ELSE -1]

-----------------------------------------------------------------------------
(* The worker of one accepted connection: the loop of Server::start.       *)
(* pc is the worker's position: "await" blocked in the read of a fresh     *)
(* Request, "dispatch" after parse_request returned, "returned" after      *)
(* handle_connection returned, "logged" after the request line was logged, *)
(* and "closed" (break), "error" (return) or "panicked" once it has ended. *)
(* ops, fsops and calls are the stream calls, filesystem calls and         *)
(* response calls of the current iteration; log holds the lines logged     *)
(* in it.                                                                  *)

Roots == {RootR, RootQ}

Host == <<"h">>

Configs == {[host |-> Host, root |-> root] : root \in Roots}

\* Server::new(config)
Server(cfg) == [config |-> cfg]

\* no client stream is followed: the bytes written and not yet read, the
\* paths of the requests written, the responses answered
NoClient == [pending |-> <<>>, written |-> <<>>, answered |-> <<>>]

ErrorLine == [kind |-> "error", method |-> <<>>, path |-> <<>>, status |-> <<>>]

\* format!("{:<6} {:<35} {}", method, path, StatusCode::from_u16(code).unwrap())
RequestLogLine(r) ==
    [kind |-> "request", method |-> r.method, path |-> r.path,
     status |-> StatusText(r.response_code)]

Init ==
    /\ config \in Configs
    /\ pc = "await"
    /\ req = NewRequest
    /\ parsed = "none"
    /\ fsops = <<>>
    /\ calls = <<>>
    /\ ops = <<>>
    /\ result = "none"
    /\ log = <<>>
    /\ listener = 1
    /\ workers = <<>>
    /\ client = NoClient

\* the read returns and parse_request decodes the buffer
Read ==
    /\ pc = "await"
    /\ \E rdo \in ReadOutcomes :
         LET p == parse_request(req, rdo)
         IN  /\ req' = p.req
             /\ parsed' = p.res
             /\ ops' = <<ReadOp(rdo)>>
    /\ pc' = "dispatch"
    /\ UNCHANGED <<config, fsops, calls, result, log, listener, workers, client>>

\* the rest of handle_connection: the dispatch and the response
Dispatch ==
    /\ pc = "dispatch"
    /\ \E env \in DispatchEnvs(Server(config), req, parsed) :
         LET h == handle_connection(Server(config), req, parsed, env)
         IN  /\ req' = h.req
             /\ calls' = h.calls
             /\ fsops' = h.fsops
             /\ ops' = ops \o h.ops
             /\ result' = h.res
             /\ pc' = IF h.res = "panic" THEN "panicked" ELSE "returned"
    /\ UNCHANGED <<config, parsed, log, listener, workers, client>>

\* a loop body without the break on an empty method
Finish_NoBreak ==
    /\ pc = "returned"
    /\ IF result = "Err" THEN pc' = "error" /\ log' = log \o <<ErrorLine>>
       ELSE IF ~from_u16_ok(req.response_code) THEN pc' = "panicked" /\ log' = log
       ELSE pc' = "logged" /\ log' = log \o <<RequestLogLine(req)>>
    /\ UNCHANGED <<config, req, parsed, fsops, calls, ops, result, listener, workers, client>>

\* the loop body after handle_connection: return on an error, break on an
\* empty method, otherwise log the request line
Finish ==
    /\ pc = "returned"
    /\ IF result = "Err" THEN pc' = "error" /\ log' = log \o <<ErrorLine>>
       ELSE IF req.method = <<>> THEN pc' = "closed" /\ log' = log
       ELSE IF ~from_u16_ok(req.response_code) THEN pc' = "panicked" /\ log' = log
       ELSE pc' = "logged" /\ log' = log \o <<RequestLogLine(req)>>
    /\ UNCHANGED <<config, req, parsed, fsops, calls, ops, result, listener, workers, client>>

\* stream = req.request_input and the next iteration's fresh Request
Loop ==
    /\ pc = "logged"
    /\ pc' = "await"
    /\ req' = NewRequest
    /\ parsed' = "none"
    /\ fsops' = <<>>
    /\ calls' = <<>>
    /\ ops' = <<>>
    /\ result' = "none"
    /\ log' = <<>>
    /\ UNCHANGED <<config, listener, workers, client>>

Next == Read \/ Dispatch \/ Finish \/ Loop

Spec == Init /\ [][Next]_vars

-----------------------------------------------------------------------------
(* What the client sees: the bytes the stream accepted, read back as an    *)
(* HTTP response with a chunked body.                                      *)

\* the bytes of the write calls the stream accepted, in order
Wire(os) ==
    Concat([i \in 1..Len(os) |->
              IF os[i].op = "write" /\ os[i].n >= 0
              THEN SubSeq(os[i].data, 1, os[i].n) ELSE <<>>])

WriteOps(os) == {i \in 1..Len(os) : os[i].op \in {"write", "flush"}}

\* every write of the iteration was accepted whole and the flush succeeded
AllAccepted(os) ==
    \A i \in WriteOps(os) : os[i].op = "write" => os[i].n = Len(os[i].data)

IsHexText(t) == t # <<>> /\ \A i \in 1..Len(t) : \E d \in 1..16 : HexDigits[d] = t[i]

DigitValue(c) == (CHOOSE d \in 1..16 : HexDigits[d] = c) - 1

RECURSIVE HexValue(_)
HexValue(t) ==
    IF t = <<>> THEN 0 ELSE 16 * HexValue(SubSeq(t, 1, Len(t) - 1)) + DigitValue(t[Len(t)])

\* the status code a client reads after "HTTP/1.1 "
StatusOf(w) ==
    IF Len(w) >= 12 /\ SubSeq(w, 1, 9) = HTTP_VERSION \o <<SP>>
        /\ IsHexText(SubSeq(w, 10, 12))
    THEN 100 * DigitValue(w[10]) + 10 * DigitValue(w[11]) + DigitValue(w[12])
    ELSE 0

\* the bytes after the blank line that ends the response head
BodyOf(w) ==
    LET ends == {i \in 2..Len(w) : w[i - 1] = LF /\ w[i] = LF}
    IN  IF ends = {} THEN <<>> ELSE SubSeq(w, Min(ends) + 1, Len(w))

BadChunks == [ok |-> FALSE, sizes |-> <<>>, data |-> <<>>, rest |-> <<>>]

\* a client's reading of a chunked body: the declared sizes up to and with
\* the first zero-size chunk, the chunk bytes, and what follows that chunk
RECURSIVE Dechunk(_)
Dechunk(b) ==
    LET eols == {i \in 1..(Len(b) - 1) : b[i] = CR /\ b[i + 1] = LF}
    IN  IF eols = {} \/ ~IsHexText(SubSeq(b, 1, Min(eols) - 1)) THEN BadChunks
        ELSE LET e == Min(eols)
                 size == HexValue(SubSeq(b, 1, e - 1))
                 stop == e + 1 + size
             IN  IF Len(b) < stop + 2 \/ SubSeq(b, stop + 1, stop + 2) # CRLF THEN BadChunks
                 ELSE IF size = 0
                      THEN [ok |-> TRUE, sizes |-> <<0>>, data |-> <<>>,
                            rest |-> SubSeq(b, stop + 3, Len(b))]
                      ELSE LET more == Dechunk(SubSeq(b, stop + 3, Len(b)))
                           IN  [ok |-> more.ok, sizes |-> <<size>> \o more.sizes,
                                data |-> SubSeq(b, e + 2, stop) \o more.data,
                                rest |-> more.rest]

RECURSIVE Sum(_)
Sum(ns) == IF ns = <<>> THEN 0 ELSE Head(ns) + Sum(Tail(ns))

\* the read of the current iteration
ReadOk == ops[1].n >= 0

ReadData == ops[1].data

\* handle_connection has returned (or panicked) in the current iteration
Handled == pc \in {"returned", "logged", "closed", "error", "panicked"}

\* the worker has left the loop
Ended == pc \in {"closed", "error", "panicked"}

\* the write and flush calls of the current iteration
Sent == SubSeq(ops, 2, Len(ops))

RequestLines == {i \in 1..Len(log) : log[i].kind = "request"}

\* the number of single spaces in the first line of the padded buffer
FirstLineSpaces(data) ==
    LET b == Pad(data)
        nl == {i \in 1..Len(b) : b[i] = LF}
        e == IF nl = {} THEN Len(b) + 1 ELSE Min(nl)
    IN  Cardinality({i \in 1..(e - 1) : b[i] = SP})

-----------------------------------------------------------------------------
(* The claims.                                                             *)

BadRequestCall == [code |-> BAD_REQUEST, data |-> <<>>]

\* C1: whenever a read returns a buffer that is not valid UTF-8, the
\* dispatcher calls response(400, empty) and, when that response was sent
\* without an I/O error, the worker does not leave the loop: it goes on to
\* await the next request on the same stream.
C1_DecodeErrorKeepsConnection ==
    /\ (pc = "dispatch" /\ ReadOk /\ ~from_utf8_ok(Pad(ReadData))) => parsed = "Err"
    /\ (Handled /\ ReadOk /\ parsed = "Err")
          => /\ calls = <<BadRequestCall>>
             /\ result = "Ok" => ~Ended

\* C2: for a GET of an existing readable regular file, where the stream
\* accepted every byte, the client reads status 200, a chunked body whose
\* declared sizes sum to the file length and whose chunk bytes are the file
\* content, ended by the terminal zero-size chunk with nothing after it.
C2_FileBodyFramed ==
    (pc = "returned" /\ parsed = "Ok" /\ req.method = GET /\ fs_read(req.path).ok
          /\ result = "Ok" /\ AllAccepted(Sent))
        => LET content == fs_read(req.path).content
               c == Dechunk(BodyOf(Wire(Sent)))
           IN  /\ StatusOf(Wire(Sent)) = OK
               /\ c.ok
               /\ Sum(c.sizes) = Len(content)
               /\ c.data = content
               /\ c.rest = <<>>

NotImplementedCall == [code |-> NOT_IMPLEMENTED, data |-> NotImplementedBody]

\* C3: for every decoded request whose method is neither empty nor exactly
\* GET, the dispatcher makes no filesystem call and calls response(501,
\* "Not Implemented"); when the stream accepted every byte the client reads
\* status 501 and that body; and unless sending failed with an I/O error
\* the worker stays in the loop, with 501 recorded on the request.
C3_NonGetIs501 ==
    (Handled /\ parsed = "Ok" /\ req.method # <<>> /\ req.method # GET)
        => /\ fsops = <<>>
           /\ calls = <<NotImplementedCall>>
           /\ result \in {"Ok", "Err"}
           /\ result = "Ok" => (req.response_code = NOT_IMPLEMENTED /\ ~Ended)
           /\ (result = "Ok" /\ AllAccepted(Sent)) =>
                 /\ StatusOf(Wire(Sent)) = NOT_IMPLEMENTED
                 /\ Dechunk(BodyOf(Wire(Sent))).data = NotImplementedBody

\* a state in which a POST was answered 501, logged, and the loop goes on
C3_Witness ==
    /\ pc = "logged"
    /\ req.method = POST
    /\ req.response_code = NOT_IMPLEMENTED
    /\ calls = <<NotImplementedCall>>
    /\ RequestLines # {}

NotFoundCall == [code |-> NOT_FOUND, data |-> NotFoundBody]

\* C4: for every GET whose path has no metadata, or is a regular file that
\* cannot be read, the dispatcher calls response(404, "Not Found"); when
\* the stream accepted every byte the client reads status 404 and that
\* body; and unless sending failed with an I/O error the worker stays in
\* the loop, with 404 recorded on the request.
C4_MissingIs404 ==
    (Handled /\ parsed = "Ok" /\ req.method = GET
          /\ (~fs_metadata(req.path).ok
              \/ (fs_metadata(req.path).kind = "file" /\ ~fs_read(req.path).ok)))
        => /\ calls = <<NotFoundCall>>
           /\ result \in {"Ok", "Err"}
           /\ result = "Ok" => (req.response_code = NOT_FOUND /\ ~Ended)
           /\ (result = "Ok" /\ AllAccepted(Sent)) =>
                 /\ StatusOf(Wire(Sent)) = NOT_FOUND
                 /\ Dechunk(BodyOf(Wire(Sent))).data = NotFoundBody

\* a state in which a GET of an unreadable file was answered 404 and logged
C4_Witness ==
    /\ pc = "logged"
    /\ req.method = GET
    /\ req.path = UnreadableFile
    /\ fsops = <<"metadata", "read">>
    /\ req.response_code = NOT_FOUND
    /\ AllAccepted(Sent)

\* the read returned zero bytes, or a first line that does not split on
\* single spaces into exactly three tokens
SentinelInput ==
    ReadOk /\ from_utf8_ok(Pad(ReadData))
    /\ (ReadData = <<>> \/ FirstLineSpaces(ReadData) # 2)

\* C5: a read of zero bytes or of a first line without exactly three
\* space-separated tokens decodes to the empty-method sentinel; and
\* whenever decode yields an empty method the worker makes no write or
\* flush call, logs nothing and leaves the loop through the break.
C5_SentinelCloses ==
    /\ (pc = "dispatch" /\ SentinelInput) => (parsed = "Ok" /\ req.method = <<>>)
    /\ (Handled /\ parsed = "Ok" /\ req.method = <<>>)
          => /\ Sent = <<>>
             /\ calls = <<>>
             /\ log = <<>>
             /\ pc \in {"returned", "closed"}

\* a state in which a two-token first line has closed the connection
C5_Witness ==
    /\ pc = "closed"
    /\ ReadData = GET \o <<SP>> \o DirD
    /\ ops = <<ReadOp([ok |-> TRUE, data |-> ReadData])>>
    /\ log = <<>>

\* C6: when the configured root is a directory holding a.txt with content
\* "hi", a read of "GET /a.txt HTTP/1.1" followed by a blank line is
\* answered, where the stream accepted every byte, with status 200 and a
\* chunked body that de-chunks to "hi".
C6_RootedFileServed ==
    (pc = "returned" /\ fs_metadata(config.root).kind = "dir"
          /\ fs_read(Join(config.root, AFileName)) = [ok |-> TRUE, content |-> HiContent]
          /\ ReadOk /\ ReadData = RequestLine(GET, <<SLASH>> \o AFileName) \o CRLF \o CRLF
          /\ result = "Ok" /\ AllAccepted(Sent))
        => /\ StatusOf(Wire(Sent)) = OK
           /\ Dechunk(BodyOf(Wire(Sent))).data = HiContent

\* the places where pat occurs in text
Occurrences(text, pat) ==
    {i \in 1..(Len(text) - Len(pat) + 1) : SubSeq(text, i, i + Len(pat) - 1) = pat}

AnchorOpen == <<"<", "a", SP>>

\* C7: for every GET whose path is an existing directory the dispatcher
\* calls response(200, page) where page opens with the HTML shell and an h1
\* of the directory path, closes the shell, and holds exactly one hyperlink
\* per child of the directory: one anchor per child, and for every child
\* exactly one anchor whose target is the child's full path and whose label
\* is its bare name.
C7_DirectoryListed ==
    (Handled /\ parsed = "Ok" /\ req.method = GET /\ fs_metadata(req.path).kind = "dir")
        => /\ Len(calls) = 1
           /\ calls[1].code = OK
           /\ LET page == calls[1].data
                  children == Node(req.path).names
                  open == PageOpen \o req.path \o PageMid
              IN  /\ SubSeq(page, 1, Len(open)) = open
                  /\ SubSeq(page, Len(page) - Len(PageClose) + 1, Len(page)) = PageClose
                  /\ Cardinality(Occurrences(page, AnchorOpen)) = Cardinality(children)
                  /\ \A c \in children :
                        Cardinality(Occurrences(page, EntryLink(req.path, c))) = 1

\* C8: for every buffer that is valid UTF-8 and whose first line holds
\* exactly two single spaces (three tokens), decode succeeds with method
\* equal to the bytes before the first space and path equal to the bytes
\* between the two spaces, byte for byte.
C8_MethodAndPathVerbatim ==
    (pc = "dispatch" /\ ReadOk /\ from_utf8_ok(Pad(ReadData))
          /\ FirstLineSpaces(ReadData) = 2)
        => LET b == Pad(ReadData)
               s1 == Min({i \in 1..Len(b) : b[i] = SP})
               s2 == Min({i \in (s1 + 1)..Len(b) : b[i] = SP})
           IN  /\ parsed = "Ok"
               /\ req.method = SubSeq(b, 1, s1 - 1)
               /\ req.path = SubSeq(b, s1 + 1, s2 - 1)

\* a request with header lines decoded to its method and path
C8_Witness ==
    /\ pc = "dispatch"
    /\ ReadData = RequestLine(GET, DirD) \o HeaderBlock
    /\ req.method = GET
    /\ req.path = DirD
    /\ DOMAIN req.headers # {}

\* C9: when the read of an iteration fails with an I/O error no response
\* is attempted: no response call is made and no write or flush call
\* follows the failed read.
C9_ReadErrorNoResponse ==
    (Handled /\ ~ReadOk) => (calls = <<>> /\ Sent = <<>>)

\* the stream calls that failed
FailedOps == {i \in 1..Len(ops) : ops[i].op \in {"write", "flush"} /\ Failed(ops[i])}

\* C10: when a write or flush of a response fails, it is the last stream
\* call of the worker: response and handle_connection return the error, no
\* request line is logged, the worker leaves the loop through the return,
\* and once it has, it takes no further step.
C10_WriteErrorIsFatal ==
    /\ [](FailedOps # {} =>
            /\ FailedOps = {Len(ops)}
            /\ result = "Err"
            /\ req.response_code = 0
            /\ RequestLines = {}
            /\ pc \in {"returned", "error"})
    /\ [][pc # "error"]_vars

\* a response whose third write failed after two were accepted
C10_Witness ==
    /\ pc = "error"
    /\ Len(ops) = 4
    /\ Failed(ops[4])
    /\ ~Failed(ops[3])
    /\ log = <<ErrorLine>>

-----------------------------------------------------------------------------
(* A worker thread as a value: the same loop, with the worker's state held *)
(* in one record so that several workers can run side by side.             *)

\* the closure handed to thread::spawn, at the top of its loop
Spawn(cfg) ==
    [config |-> cfg, pc |-> "await", req |-> NewRequest, parsed |-> "none",
     fsops |-> <<>>, calls |-> <<>>, ops |-> <<>>, result |-> "none", log |-> <<>>]

\* a decode that reads a second time when the buffer holds no line end
read_step_ReadAgain(w, rdo) ==
    LET p == parse_request(w.req, rdo)
    IN  [w EXCEPT !.req = p.req, !.parsed = p.res, !.pc = "dispatch",
                  !.ops = IF \E i \in 1..Len(rdo.data) : rdo.data[i] = LF
                          THEN <<ReadOp(rdo)>>
                          ELSE <<ReadOp(rdo), ReadOp([ok |-> TRUE, data |-> <<>>])>>]

\* the read returns rdo and parse_request decodes the buffer
read_step(w, rdo) ==
    LET p == parse_request(w.req, rdo)
    IN  [w EXCEPT !.req = p.req, !.parsed = p.res, !.ops = <<ReadOp(rdo)>>,
                  !.pc = "dispatch"]

\* the rest of handle_connection under env
dispatch_step(w, env) ==
    LET h == handle_connection(Server(w.config), w.req, w.parsed, env)
    IN  [w EXCEPT !.req = h.req, !.calls = h.calls, !.fsops = h.fsops,
                  !.ops = w.ops \o h.ops, !.result = h.res,
                  !.pc = IF h.res = "panic" THEN "panicked" ELSE "returned"]

\* the loop body after handle_connection
finish_step(w) ==
    IF w.result = "Err" THEN [w EXCEPT !.pc = "error", !.log = w.log \o <<ErrorLine>>]
    ELSE IF w.req.method = <<>> THEN [w EXCEPT !.pc = "closed"]
    ELSE IF ~from_u16_ok(w.req.response_code) THEN [w EXCEPT !.pc = "panicked"]
    ELSE [w EXCEPT !.pc = "logged", !.log = w.log \o <<RequestLogLine(w.req)>>]

\* a loop that keeps one Request for the whole connection
loop_step_KeepRequest(w) ==
    [Spawn(w.config) EXCEPT !.req = [w.req EXCEPT !.response_code = 0]]

\* the next iteration: a Request built anew around the same stream
loop_step(w) == Spawn(w.config)

WorkerHandled(w) == w.pc \in {"returned", "logged", "closed", "error", "panicked"}

WorkerEnded(w) == w.pc \in {"closed", "error", "panicked"}

-----------------------------------------------------------------------------
(* The accept loop of Server::start with its workers: every accepted       *)
(* connection is moved into a thread of its own and the loop goes back to  *)
(* accept; the threads share only the immutable Server.  listener counts   *)
(* the connections accepted, workers[c] is the worker of connection c.     *)

\* the connections the accept loop is followed for
MaxConns == 2

\* what the clients of the concurrent workers send: nothing more (the
\* connection was closed), a GET of a missing path, a GET of a file
ConcReads ==
    {[ok |-> TRUE, data |-> d] :
        d \in {<<>>, RequestLine(GET, MissingPath) \o CRLF \o CRLF,
               RequestLine(GET, Join(RootR, AFileName)) \o CRLF \o CRLF}}

\* the stream either takes every write or fails the first one
ConcEnvs(w) ==
    {e \in DispatchEnvs(Server(w.config), w.req, w.parsed) :
        e.resp.fault.kind = "none" \/ (e.resp.fault.kind = "fail" /\ e.resp.fault.at = 1)}

\* the workers after the decode of what the clients send, and for each of
\* them the workers handle_connection can leave behind
ConcDecoded == {read_step(Spawn(cfg), rdo) : cfg \in Configs, rdo \in ConcReads}

ConcDispatched == [w \in ConcDecoded |-> {dispatch_step(w, env) : env \in ConcEnvs(w)}]

InitConc ==
    /\ config \in Configs
    /\ pc = "await"
    /\ req = NewRequest
    /\ parsed = "none"
    /\ fsops = <<>>
    /\ calls = <<>>
    /\ ops = <<>>
    /\ result = "none"
    /\ log = <<>>
    /\ listener = 0
    /\ workers = <<>>
    /\ client = NoClient

\* an accept loop that serves the connection itself before it accepts again
Accept_Inline ==
    /\ listener < MaxConns
    /\ \A c \in DOMAIN workers : WorkerEnded(workers[c])
    /\ \E ok \in BOOLEAN :
         workers' = Append(workers, IF ok THEN Spawn(config)
                                    ELSE [Spawn(config) EXCEPT !.pc = "panicked"])
    /\ listener' = listener + 1
    /\ UNCHANGED <<config, pc, req, parsed, fsops, calls, ops, result, log, client>>

\* one turn of `for stream in listener.incoming()`: thread::spawn and back
\* to accept; a failed accept is unwrapped inside the new thread
Accept ==
    /\ listener < MaxConns
    /\ \E ok \in BOOLEAN :
         workers' = Append(workers, IF ok THEN Spawn(config)
                                    ELSE [Spawn(config) EXCEPT !.pc = "panicked"])
    /\ listener' = listener + 1
    /\ UNCHANGED <<config, pc, req, parsed, fsops, calls, ops, result, log, client>>

ConcRead(c) ==
    /\ c \in DOMAIN workers
    /\ workers[c].pc = "await"
    /\ \E rdo \in ConcReads : workers' = [workers EXCEPT ![c] = read_step(workers[c], rdo)]
    /\ UNCHANGED <<config, pc, req, parsed, fsops, calls, ops, result, log, listener, client>>

ConcDispatch(c) ==
    /\ c \in DOMAIN workers
    /\ workers[c].pc = "dispatch"
    /\ \E w \in ConcDispatched[workers[c]] : workers' = [workers EXCEPT ![c] = w]
    /\ UNCHANGED <<config, pc, req, parsed, fsops, calls, ops, result, log, listener, client>>

ConcFinish(c) ==
    /\ c \in DOMAIN workers
    /\ workers[c].pc = "returned"
    /\ workers' = [workers EXCEPT ![c] = finish_step(workers[c])]
    /\ UNCHANGED <<config, pc, req, parsed, fsops, calls, ops, result, log, listener, client>>

ConcLoop(c) ==
    /\ c \in DOMAIN workers
    /\ workers[c].pc = "logged"
    /\ workers' = [workers EXCEPT ![c] = loop_step(workers[c])]
    /\ UNCHANGED <<config, pc, req, parsed, fsops, calls, ops, result, log, listener, client>>

\* the steps of worker c that wait for nobody: everything but its read
ConcRun(c) == ConcDispatch(c) \/ ConcFinish(c) \/ ConcLoop(c)

NextConc ==
    \/ Accept
    \/ \E c \in 1..MaxConns : ConcRead(c)
    \/ \E c \in 1..MaxConns : ConcDispatch(c)
    \/ \E c \in 1..MaxConns : ConcFinish(c)
    \/ \E c \in 1..MaxConns : ConcLoop(c)

\* the scheduler runs every thread that is not blocked; a read waits for
\* the client and an accept for a connection, so neither is forced
FairConc == \A c \in 1..MaxConns : WF_vars(ConcRun(c))

SpecConc == InitConc /\ [][NextConc]_vars /\ FairConc

Running(w) == w.pc \in {"dispatch", "returned", "logged"}

\* C11: connections do not block each other.  Whatever the other workers
\* are doing (some may sit in their read for ever), the accept loop can
\* take the next connection, a worker that has read its request can take
\* its next step, and it does reach the end of the cycle: it is back in its
\* read or has left its loop, the response call made.
C11_ConnectionsIndependent ==
    /\ [](listener < MaxConns => ENABLED Accept)
    /\ [](\A c \in DOMAIN workers : Running(workers[c]) => ENABLED ConcRun(c))
    /\ \A c \in 1..MaxConns :
         (c \in DOMAIN workers /\ workers[c].pc = "dispatch")
            ~> (c \in DOMAIN workers
                  /\ workers[c].pc \in {"await", "closed", "error", "panicked"})

\* the first worker is blocked in its read; the second connection was
\* accepted meanwhile and its worker has sent a 404 and logged it
C11_Witness ==
    /\ listener = 2
    /\ Len(workers) = 2
    /\ workers[1].pc = "await"
    /\ workers[2].pc = "logged"
    /\ workers[2].calls = <<[code |-> NOT_FOUND, data |-> NotFoundBody]>>
    /\ AllAccepted(workers[2].ops)

-----------------------------------------------------------------------------
(* One connection with its client on the other end of the stream.  The     *)
(* client writes whole well-formed GET requests; client.pending holds the  *)
(* bytes written and not yet read, and a read returns the next segment of  *)
(* them: any number of bytes from one up to what is pending and fits the   *)
(* buffer.  client.written lists the requests written (path and number of  *)
(* bytes), client.answered the response calls that returned without error. *)

\* the requests the client writes on the connection
MaxRequests == 2

\* a read returns a segment of up to MaxSegment bytes, or all there is
MaxSegment == 8

\* a header value that does not fit the buffer together with its request
LongValue == [i \in 1..BUFFER_SIZE |-> "v"]

SmallRequest(p) == RequestLine(GET, p) \o CRLF \o CRLF

BigRequest(p) == RequestLine(GET, p) \o CRLF \o <<"a", COLON>> \o LongValue \o CRLF \o CRLF

Written(p, bytes) == [path |-> p, len |-> Len(bytes)]

StreamRequests ==
    {[path |-> p, bytes |-> SmallRequest(p)] : p \in {MissingPath, Join(RootR, AFileName)}}
    \cup {[path |-> MissingPath, bytes |-> BigRequest(MissingPath)]}

\* the sizes of the segment a read of the pending bytes can return
SegmentSizes(pending) ==
    LET most == Min({Len(pending), BUFFER_SIZE})
    IN  {n \in 1..most : n <= MaxSegment \/ n = most}

InitStream ==
    /\ config \in Configs
    /\ pc = "await"
    /\ req = NewRequest
    /\ parsed = "none"
    /\ fsops = <<>>
    /\ calls = <<>>
    /\ ops = <<>>
    /\ result = "none"
    /\ log = <<>>
    /\ listener = 1
    /\ workers = <<Spawn(config)>>
    /\ client = NoClient

ClientWrite ==
    /\ Len(client.written) < MaxRequests
    /\ \E r \in StreamRequests :
         client' = [client EXCEPT !.pending = @ \o r.bytes, !.written = Append(@, Written(r.path, r.bytes))]
    /\ UNCHANGED <<config, pc, req, parsed, fsops, calls, ops, result, log, listener, workers>>

\* the read blocks until bytes are pending, then takes one segment
StreamRead ==
    /\ workers[1].pc = "await"
    /\ client.pending # <<>>
    /\ \E n \in SegmentSizes(client.pending) :
         /\ workers' = <<read_step(workers[1],
                                   [ok |-> TRUE, data |-> SubSeq(client.pending, 1, n)])>>
         /\ client' = [client EXCEPT !.pending = SubSeq(@, n + 1, Len(@))]
    /\ UNCHANGED <<config, pc, req, parsed, fsops, calls, ops, result, log, listener>>

StreamDispatch ==
    /\ workers[1].pc = "dispatch"
    /\ \E env \in ConcEnvs(workers[1]) :
         LET w == dispatch_step(workers[1], env)
         IN  /\ workers' = <<w>>
             /\ client' = [client EXCEPT
                             !.answered = IF w.result = "Ok" THEN @ \o w.calls ELSE @]
    /\ UNCHANGED <<config, pc, req, parsed, fsops, calls, ops, result, log, listener>>

StreamFinish ==
    /\ workers[1].pc = "returned"
    /\ workers' = <<finish_step(workers[1])>>
    /\ UNCHANGED <<config, pc, req, parsed, fsops, calls, ops, result, log, listener, client>>

StreamLoop ==
    /\ workers[1].pc = "logged"
    /\ workers' = <<loop_step(workers[1])>>
    /\ UNCHANGED <<config, pc, req, parsed, fsops, calls, ops, result, log, listener, client>>

NextStream == ClientWrite \/ StreamRead \/ StreamDispatch \/ StreamFinish \/ StreamLoop

SpecStream == InitStream /\ [][NextStream]_vars

-----------------------------------------------------------------------------
(* Two servers that differ only in Config.root, side by side on the same   *)
(* filesystem.  workers[1] and workers[2] are a worker of each; every read *)
(* hands both the same bytes, and both meet the same directory order and   *)
(* the same stream behaviour.                                              *)

InitRoots ==
    /\ config \in Configs
    /\ pc = "await"
    /\ req = NewRequest
    /\ parsed = "none"
    /\ fsops = <<>>
    /\ calls = <<>>
    /\ ops = <<>>
    /\ result = "none"
    /\ log = <<>>
    /\ listener = 2
    /\ workers \in {<<Spawn(config), Spawn(other)>> : other \in Configs \ {config}}
    /\ client = NoClient

PairRead ==
    /\ workers[1].pc = "await"
    /\ \E rdo \in ReadOutcomes :
         workers' = [i \in 1..2 |-> IF workers[i].pc = "await"
                                    THEN read_step(workers[i], rdo) ELSE workers[i]]
    /\ UNCHANGED <<config, pc, req, parsed, fsops, calls, ops, result, log, listener, client>>

PairDispatch ==
    /\ workers[1].pc = "dispatch"
    /\ \E env \in DispatchEnvs(Server(workers[1].config), workers[1].req, workers[1].parsed) :
         workers' = [i \in 1..2 |-> IF workers[i].pc = "dispatch"
                                    THEN dispatch_step(workers[i], env) ELSE workers[i]]
    /\ UNCHANGED <<config, pc, req, parsed, fsops, calls, ops, result, log, listener, client>>

PairFinish ==
    /\ workers[1].pc = "returned"
    /\ workers' = [i \in 1..2 |-> IF workers[i].pc = "returned"
                                  THEN finish_step(workers[i]) ELSE workers[i]]
    /\ UNCHANGED <<config, pc, req, parsed, fsops, calls, ops, result, log, listener, client>>

PairLoop ==
    /\ workers[1].pc = "logged"
    /\ workers' = [i \in 1..2 |-> IF workers[i].pc = "logged"
                                  THEN loop_step(workers[i]) ELSE workers[i]]
    /\ UNCHANGED <<config, pc, req, parsed, fsops, calls, ops, result, log, listener, client>>

NextRoots == PairRead \/ PairDispatch \/ PairFinish \/ PairLoop

SpecRoots == InitRoots /\ [][NextRoots]_vars

\* C17: the request path is the filesystem path and the configured root
\* takes no part in the resolution: two servers that differ only in
\* Config.root and are given the same requests on the same filesystem make
\* the same filesystem calls and the same stream calls with the same
\* bytes, and a GET of a readable file is answered with the content found
\* at the request path itself.
C17_RootHasNoInfluence ==
    workers[1].config.root # workers[2].config.root
        => /\ workers[1].pc = workers[2].pc
           /\ workers[1].ops = workers[2].ops
           /\ workers[1].calls = workers[2].calls
           /\ workers[1].fsops = workers[2].fsops
           /\ workers[1].log = workers[2].log
           /\ \A i \in 1..2 :
                (workers[i].pc = "returned" /\ workers[i].parsed = "Ok"
                    /\ workers[i].req.method = GET /\ fs_read(workers[i].req.path).ok)
                    => workers[i].calls
                         = <<[code |-> OK, data |-> fs_read(workers[i].req.path).content]>>

\* the server rooted at /q has served the file /r/a.txt, which lies under
\* the other server's root, and so has the server rooted at /r
C17_Witness ==
    /\ workers[1].config.root = RootQ
    /\ workers[2].config.root = RootR
    /\ workers[1].pc = "returned"
    /\ workers[1].req.path = Join(RootR, AFileName)
    /\ workers[1].calls = <<[code |-> OK, data |-> HiContent]>>
    /\ workers[2].calls = <<[code |-> OK, data |-> HiContent]>>
    /\ AllAccepted(workers[1].ops)

-----------------------------------------------------------------------------
(* Claims about one worker (Spec).                                         *)

\* C12: a worker leaves its loop only by the break on the empty-method
\* sentinel or by the return on a stream I/O error; no outcome of a decoded
\* request (a GET of a directory, a file, an unreadable or unenumerable
\* path, something that is neither, a method other than GET) ends it.
C12_ExitsOnlyClosedOrError ==
    Ended => \/ (pc = "closed" /\ req.method = <<>>)
             \/ (pc = "error" /\ FailedOps # {})

\* C13: after every response that was sent without an error (200, 400, 404
\* or 501) the worker logs exactly one request line with the method, the
\* path and the status sent, and is about to loop back to its read.
C13_ResponseThenLogAndLoop ==
    (pc \in {"logged", "closed", "error", "panicked"} /\ result = "Ok" /\ calls # <<>>)
        => /\ pc = "logged"
           /\ log = <<[kind |-> "request", method |-> req.method, path |-> req.path,
                       status |-> StatusText(calls[1].code)]>>

\* C14: response() writes exactly ceil(len / 500) data chunks; every data
\* chunk declares a size in 1..500 that is the number of bytes written
\* after it, every chunk but the last declares 500, and the terminal
\* marker follows the last data chunk (no data chunk for an empty payload).
C14_ChunkFraming ==
    (pc = "returned" /\ result = "Ok" /\ calls # <<>>)
        => LET len == Len(calls[1].data)
               n == (Len(Sent) - 3) \div 4
           IN  /\ Len(Sent) = 4 * n + 3
               /\ n = (len + BYTES_PER_CHUNK - 1) \div BYTES_PER_CHUNK
               /\ \A j \in 1..n :
                    LET size == HexValue(Sent[4 * j - 2].data)
                    IN  /\ size \in 1..BYTES_PER_CHUNK
                        /\ size = Len(Sent[4 * j].data)
                        /\ j < n => size = BYTES_PER_CHUNK
               /\ Sent[4 * n + 2].data = TerminalMarker

SentCodes == {OK, BAD_REQUEST, NOT_FOUND, NOT_IMPLEMENTED}

\* C18: whenever the worker comes to the log step (handle_connection
\* returned without error and the method is not empty), exactly one
\* response call was made in the cycle and response_code is its status,
\* one of 200, 400, 404 and 501, never the initial 0.
C18_LogStepHasSentStatus ==
    (Handled /\ result = "Ok" /\ req.method # <<>>)
        => /\ Len(calls) = 1
           /\ req.response_code = calls[1].code
           /\ req.response_code \in SentCodes

\* C19: when response() returns success the stream has accepted the whole
\* response: the bytes of the head, of every chunk size line, chunk and
\* line end and of the terminal marker, in that order, also when a write
\* call accepted fewer bytes than it was given.
C19_SuccessMeansComplete ==
    (pc = "returned" /\ result = "Ok" /\ calls # <<>>)
        => \E order \in HeaderOrders :
              Wire(Sent) = Concat(WriteList(calls[1].code, calls[1].data, order))

-----------------------------------------------------------------------------
(* Claims about one connection and its client (SpecStream).                *)

\* C15: at the start of every request cycle (the worker is in its read) the
\* Request is a fresh one: empty method, empty path, no headers and
\* response_code 0, whatever the cycles before decoded or sent.
C15_FreshRequestEveryCycle ==
    \A c \in DOMAIN workers :
        workers[c].pc = "await"
            => /\ workers[c].req.method = <<>>
               /\ workers[c].req.path = <<>>
               /\ DOMAIN workers[c].req.headers = {}
               /\ workers[c].req.response_code = 0

\* the worker is back in its read after a cycle that decoded the GET of a
\* missing path and sent a 404; the client's second request is pending
C15_Witness ==
    /\ workers[1].pc = "await"
    /\ workers[1].req = NewRequest
    /\ client.written = <<Written(MissingPath, SmallRequest(MissingPath)),
                          Written(Join(RootR, AFileName), SmallRequest(Join(RootR, AFileName)))>>
    /\ client.answered = <<NotFoundCall>>
    /\ client.pending = SmallRequest(Join(RootR, AFileName))

ReadCalls(w) == {i \in 1..Len(w.ops) : w.ops[i].op = "read"}

\* C16: in every request cycle the worker makes exactly one read call, the
\* first stream call of the cycle, and it takes at most 1024 bytes; there
\* is no second read in the cycle, not even when the first line is
\* incomplete and more bytes are pending.
C16_OneReadPerCycle ==
    \A c \in DOMAIN workers :
        workers[c].pc # "await"
            => /\ ReadCalls(workers[c]) = {1}
               /\ workers[c].ops[1].n <= BUFFER_SIZE
               /\ Len(workers[c].ops[1].data) = workers[c].ops[1].n

\* the read returned "GET /" only, the rest of the request is still
\* pending, and the worker has closed the connection after that one read
C16_Witness ==
    /\ workers[1].pc = "closed"
    /\ workers[1].ops = <<ReadOp([ok |-> TRUE, data |-> GET \o <<SP, SLASH>>])>>
    /\ client.pending # <<>>

\* the response call a GET of path p is answered with
ExpectedCall(p) ==
    IF fs_read(p).ok THEN [code |-> OK, data |-> fs_read(p).content] ELSE NotFoundCall

\* C20: for every sequence of well-formed GET requests of at most 1024
\* bytes each that the client writes, the worker sends exactly one response
\* per request, in request order, however the bytes are cut into reads:
\* once the worker waits in its read with no byte pending, or has left its
\* loop without a stream error, the responses sent are those of the
\* requests written.
C20_OneResponsePerRequest ==
    (/\ \A i \in 1..Len(client.written) : client.written[i].len <= BUFFER_SIZE
     /\ \/ workers[1].pc = "await" /\ client.pending = <<>>
        \/ workers[1].pc \in {"closed", "panicked"})
        => client.answered
             = [i \in 1..Len(client.written) |-> ExpectedCall(client.written[i].path)]

====
